---- MODULE Spec2Model ----
(***************************************************************************)
(* Model of gowk/sql: the reflection-driven statement builder              *)
(* (src/executor.go) and the database handle with its batch operations     *)
(* (src/db.go).                                                            *)
(*                                                                         *)
(* SQL text is a sequence of one-character strings, so that                *)
(* bytes.Buffer.Truncate, strings.Join and strings.Repeat are modelled by  *)
(* what they do to the bytes.  The delegated executor (database/sql) is a  *)
(* collaborator whose outcomes are chosen nondeterministically.            *)
(***************************************************************************)
EXTENDS Integers, Sequences, FiniteSets, TLC

VARIABLES
    pc,         \* position of the sequential caller: "idle" or "returned"
    op,         \* the call being observed, with its inputs
    ret,        \* what the call gave back: "nil", an error, or "panic"
    calls,      \* the calls the operation made on its collaborator, in order
    dest,       \* Select: the caller's collection after the call
    committed,  \* batch: the records made durable by the transactional scope
    cache,      \* executor.typeToFieldInfo
    ppc,        \* concurrent callers: position of each
    ptype,      \* concurrent callers: the record type each works on
    pinfo,      \* concurrent callers: the *fieldInfo each holds
    pcols       \* concurrent callers: the column order each built its statement from

vars == <<pc, op, ret, calls, dest, committed, cache, ppc, ptype, pinfo, pcols>>

seqVars == <<pc, op, ret, calls, dest, committed>>
concVars == <<ppc, ptype, pinfo, pcols>>

-----------------------------------------------------------------------------
(* Bounds of the model *)

MaxBatch == 3
MaxRows == 2
NumProcs == 2

-----------------------------------------------------------------------------
(* Text *)

S_insert_into == <<"i","n","s","e","r","t"," ","i","n","t","o"," ">>
S_values == <<")"," ","v","a","l","u","e","s"," ","(">>
S_update == <<"u","p","d","a","t","e"," ">>
S_set == <<" ","s","e","t"," ">>
S_eq_ph == <<" ","="," ","?",",">>
S_where == <<" ","w","h","e","r","e"," ">>
S_on_dup == <<")"," ","o","n"," ","d","u","p","l","i","c","a","t","e"," ","k","e","y"," ","s","e","t"," ">>
S_select == <<"s","e","l","e","c","t"," ">>
S_from == <<" ","f","r","o","m"," ">>
S_delete_from == <<"d","e","l","e","t","e"," ","f","r","o","m"," ">>

RECURSIVE Join(_, _)
Join(elems, sep) ==
    IF Len(elems) = 0 THEN <<>>
    ELSE IF Len(elems) = 1 THEN elems[1]
    ELSE elems[1] \o sep \o Join(Tail(elems), sep)

RECURSIVE Repeat(_, _)
Repeat(s, count) == IF count = 0 THEN <<>> ELSE s \o Repeat(s, count - 1)

\* bytes.Buffer.Truncate(n): keeps the first n bytes
Truncate(buf, n) == SubSeq(buf, 1, n)

RECURSIVE WriteSetList(_, _)
WriteSetList(buf, columns) ==
    IF Len(columns) = 0 THEN buf
    ELSE WriteSetList(buf \o columns[1] \o S_eq_ph, Tail(columns))

-----------------------------------------------------------------------------
(* Values, record types and the type inspector *)

Vals == {1, 2}
Zero == 0

Errs == {"e1", "e2"}
ErrNoRows == "sql: no rows in result set"
Outcomes == {"ok"} \cup Errs

C_id == <<"i","d">>
C_nm == <<"n","m">>
C_x == <<"x">>

Tables == {<<"t">>, <<"u","s">>}
WhereTexts == {<<>>, <<"i","d","=","?">>}

Types == {"T0", "T1", "T2"}
None == [names |-> <<"none">>, indexes |-> <<>>]

\* number of struct fields of each record type (reflect.Type.NumField)
NumField(t) == CASE t = "T0" -> 1 [] t = "T1" -> 3 [] t = "T2" -> 1

\* T0: one unexported field; T1: ID `db:"id"`, an unmapped field, Name `db:"nm"`;
\* T2: X `db:"x"`
getFieldInfo(t) ==
    CASE t = "T0" -> [names |-> <<>>, indexes |-> <<>>]
      [] t = "T1" -> [names |-> <<C_id, C_nm>>, indexes |-> <<0, 2>>]
      [] t = "T2" -> [names |-> <<C_x>>, indexes |-> <<0>>]

StructVals(t) == [0 .. NumField(t) - 1 -> Vals]

\* what a caller may pass as a record
\* depth is the number of non-nil pointer indirections in front of the struct
RecordsOf(t) ==
    {[kind |-> "struct", type |-> t, fields |-> f, depth |-> d] :
        f \in StructVals(t), d \in 0 .. 1}
TypedRecords == UNION {RecordsOf(t) : t \in Types}
BadRecords == {[kind |-> k] : k \in {"invalid", "nilptr", "nonstruct"}}

MapKeys == {C_id, C_nm}
MapRecords == {[kind |-> "map", m |-> m] : m \in UNION {[K -> Vals] : K \in SUBSET MapKeys}}

Records == TypedRecords \cup BadRecords \cup MapRecords

\* the orders in which a Go map may be iterated: every permutation of its keys
Orders(K) ==
    {o \in [1 .. Cardinality(K) -> K] : \A a, b \in 1 .. Cardinality(K) : o[a] = o[b] => a = b}
OrdersOf(record) == IF record.kind = "map" THEN Orders(DOMAIN record.m) ELSE {<<>>}

ArgLists == {<<>>, <<1>>, <<2, 1>>}

-----------------------------------------------------------------------------
(* executor: the type cache and field extraction *)

EmptyCache == [t \in Types |-> None]

CacheLoad(c, t) == c[t]

\* a Store that replaces the map instead of adding to it
CacheStore_evict(c, t, info) == [x \in Types |-> IF x = t THEN info ELSE None]

CacheStore(c, t, info) == [c EXCEPT ![t] = info]

Panicked(c) == [panic |-> TRUE, names |-> <<>>, values |-> <<>>, cache |-> c]

\* the pointer loop leaves a nil pointer as it is, so only kind "struct" passes the
\* reflect.Struct test
getFields(c, i) ==
    IF i.kind = "invalid" THEN Panicked(c)
    ELSE IF i.kind # "struct" THEN Panicked(c)
    ELSE LET hit == CacheLoad(c, i.type) # None
             info == IF hit THEN CacheLoad(c, i.type) ELSE getFieldInfo(i.type)
             c2 == IF hit THEN c ELSE CacheStore(c, i.type, info)
         IN [panic |-> FALSE,
             names |-> info.names,
             values |-> [k \in 1 .. Len(info.indexes) |-> i.fields[info.indexes[k]]],
             cache |-> c2]

getFieldValues(c, i) ==
    LET f == getFields(c, i)
    IN IF f.panic THEN f
       ELSE [f EXCEPT !.values = [k \in 1 .. Len(f.names) |-> f.values[k]]]

\* the head of Insert, Update and Upsert: columns and values of a map in its
\* iteration order, of anything else through getFieldValues
columnsAndValues(c, record, order) ==
    IF record.kind = "map"
    THEN [panic |-> FALSE,
          names |-> order,
          values |-> [k \in 1 .. Len(order) |-> record.m[order[k]]],
          cache |-> c]
    ELSE getFieldValues(c, record)

-----------------------------------------------------------------------------
(* executor: statements *)

Call(fn, query, args, out) == [fn |-> fn, query |-> query, args |-> args, out |-> out]

ErrOf(out) == IF out = "ok" THEN "nil" ELSE out

Outcome(r, log, c) == [ret |-> r, calls |-> log, cache |-> c]

\* one placeholder too many
InsertQuery_extraPlaceholder(table, columns) ==
    LET buf == S_insert_into \o table \o <<"(">> \o Join(columns, <<",">>)
               \o S_values \o Repeat(<<"?", ",">>, Len(columns) + 1)
    IN Truncate(buf, Len(buf) - 1) \o <<")">>

InsertQuery(table, columns) ==
    LET buf == S_insert_into \o table \o <<"(">> \o Join(columns, <<",">>)
               \o S_values \o Repeat(<<"?", ",">>, Len(columns))
    IN Truncate(buf, Len(buf) - 1) \o <<")">>

Insert(c, table, record, order, out) ==
    LET cv == columnsAndValues(c, record, order)
    IN IF cv.panic THEN Outcome("panic", <<>>, c)
       ELSE Outcome(ErrOf(out),
                    <<Call("Exec", InsertQuery(table, cv.names), cv.values, out)>>,
                    cv.cache)

UpdateQuery(table, columns, where) ==
    LET buf == WriteSetList(S_update \o table \o S_set, columns)
        cut == Truncate(buf, Len(buf) - 1)
    IN IF Len(where) > 0 THEN cut \o S_where \o where ELSE cut

\* the WHERE arguments put in front of the SET values
UpdateArgs_whereFirst(values, args) == args \o values

UpdateArgs(values, args) == values \o args

Update(c, table, record, order, where, args, out) ==
    LET cv == columnsAndValues(c, record, order)
    IN IF cv.panic THEN Outcome("panic", <<>>, c)
       ELSE Outcome(ErrOf(out),
                    <<Call("Exec", UpdateQuery(table, cv.names, where),
                           UpdateArgs(cv.values, args), out)>>,
                    cv.cache)

UpsertQuery(table, columns) ==
    LET buf == S_insert_into \o table \o <<"(">> \o Join(columns, <<",">>)
               \o S_values \o Repeat(<<"?", ",">>, Len(columns))
        mid == WriteSetList(Truncate(buf, Len(buf) - 1) \o S_on_dup, columns)
    IN Truncate(mid, Len(mid) - 1)

\* the values handed over once only
UpsertArgs_once(values) == values

UpsertArgs(values) == values \o values

Upsert(c, table, record, order, out) ==
    LET cv == columnsAndValues(c, record, order)
    IN IF cv.panic THEN Outcome("panic", <<>>, c)
       ELSE Outcome(ErrOf(out),
                    <<Call("Exec", UpsertQuery(table, cv.names), UpsertArgs(cv.values), out)>>,
                    cv.cache)

DeleteQuery(table, where) ==
    IF Len(where) > 0 THEN S_delete_from \o table \o S_where \o where
    ELSE S_delete_from \o table

Delete(c, table, where, args, out) ==
    Outcome(ErrOf(out), <<Call("Exec", DeleteQuery(table, where), args, out)>>, c)

\* the body is a stub: nothing is queried, nothing is written to the record
SelectOne(c, table, record, where, args) == Outcome("nil", <<>>, c)

-----------------------------------------------------------------------------
(* executor: Select *)

\* a Go slice: nil or not, and its elements
Slice(isNil, elems) == [isNil |-> isNil, elems |-> elems]

\* one element of a collection: a struct value, or a pointer to one
Elem(t, isPtr, fields) == [type |-> t, ptr |-> isPtr, fields |-> fields]

\* reflect.New(elemType).Elem(): every field holds its zero value
ZeroFields(t) == [j \in 0 .. NumField(t) - 1 |-> Zero]

\* the destinations handed to rows.Scan: the address of elem.Field(idx), for
\* each idx of fi.indexes in turn; an address is modelled by the field's index
\* the destinations taken in the reverse of the column order
ScanDests_reversed(fi) ==
    [k \in 1 .. Len(fi.indexes) |-> fi.indexes[Len(fi.indexes) + 1 - k]]

ScanDests(fi) == [k \in 1 .. Len(fi.indexes) |-> fi.indexes[k]]

SelectQuery(table, fi, where) ==
    LET buf == S_select \o Join(fi.names, <<",">>) \o S_from \o table
    IN IF Len(where) > 0 THEN buf \o S_where \o where ELSE buf

\* database/sql Rows.Scan: refuses a destination count other than the column
\* count, else stores column k of the row through destination k
ScanInto(fields, dests, row) ==
    [j \in DOMAIN fields |->
        IF \E k \in 1 .. Len(dests) : dests[k] = j
        THEN row[CHOOSE k \in 1 .. Len(dests) : dests[k] = j]
        ELSE fields[j]]

ScanOutcome(dests, row, out) ==
    IF Len(dests) # Len(row) THEN "scan: destination count" ELSE out

\* each row replaces what was appended before it
AppendElem_overwrite(sliceValue, elem) == Slice(FALSE, <<elem>>)

\* sliceValue = reflect.Append(sliceValue, elem)
AppendElem(sliceValue, elem) == Slice(FALSE, Append(sliceValue.elems, elem))

\* the rows.Next loop from row k on; sliceValue holds what was appended so far
RECURSIVE scanLoop(_, _, _, _, _, _, _, _)
scanLoop(fi, elemType, isPtr, rows, scanOuts, k, sliceValue, log) ==
    IF k > Len(rows) THEN [err |-> "nil", sliceValue |-> sliceValue, calls |-> log]
    ELSE LET fields == ScanDests(fi)
             err == ScanOutcome(fields, rows[k], scanOuts[k])
             log2 == Append(log, Call("Scan", <<>>, fields, err))
             elem == Elem(elemType, isPtr, ScanInto(ZeroFields(elemType), fields, rows[k]))
         IN IF err # "ok" THEN [err |-> err, sliceValue |-> sliceValue, calls |-> log2]
            ELSE scanLoop(fi, elemType, isPtr, rows, scanOuts, k + 1,
                          AppendElem(sliceValue, elem), log2)

SelectOutcome(r, log, d, c) == [ret |-> r, calls |-> log, dest |-> d, cache |-> c]

\* records: what the caller passed.  A Value made by reflect.ValueOf is never
\* settable, so a nil pointer always takes the second panic.
\* rows, scanOuts, iterOut: the rows the iterator delivers, the outcome of each
\* Scan, and what rows.Err() holds once Next has returned false
Select(c, table, records, where, args, qout, rows, scanOuts, iterOut) ==
    IF records.kind # "ptr" THEN SelectOutcome("panic", <<>>, records.slice, c)
    ELSE IF records.isNil THEN SelectOutcome("panic", <<>>, records.slice, c)
    ELSE IF ~records.toSlice THEN SelectOutcome("panic", <<>>, records.slice, c)
    ELSE IF records.elemKind # "struct" THEN SelectOutcome("panic", <<>>, records.slice, c)
    ELSE LET elemType == records.elemType
             hit == CacheLoad(c, elemType) # None
             fi == IF hit THEN CacheLoad(c, elemType) ELSE getFieldInfo(elemType)
             c2 == IF hit THEN c ELSE CacheStore(c, elemType, fi)
             query == SelectQuery(table, fi, where)
             qcall == Call("Query", query, args, qout)
         IN IF qout # "ok" THEN SelectOutcome(qout, <<qcall>>, records.slice, c2)
            ELSE LET loop == scanLoop(fi, elemType, records.isPtr, rows, scanOuts, 1,
                                      records.slice, <<qcall>>)
                     log == IF loop.err = "nil" /\ iterOut # "ok"
                            THEN Append(loop.calls, Call("Next", <<>>, <<>>, iterOut))
                            ELSE loop.calls
                 IN IF loop.err # "nil"
                    THEN SelectOutcome(loop.err, log, records.slice, c2)
                    ELSE SelectOutcome("nil", log, loop.sliceValue, c2)

-----------------------------------------------------------------------------
(* DB: transactions and batch operations *)

\* DB.Begin: a *Tx around the driver's transaction, or nil and the error
Begin(out) == [tx |-> IF out = "ok" THEN "tx" ELSE "nil", err |-> ErrOf(out)]

\* the loop and the tail of MultiInsert, MultiUpdate and MultiSave from record k
\* on; fn is the per-record method of Tx.  A method of Tx called on the nil *Tx
\* dereferences it.
RECURSIVE batchLoop(_, _, _, _, _, _, _, _)

\* a failing record is skipped and the loop goes on to the Commit
batchLoop_keepGoing(tx, fn, values, outs, k, log, commitOut, rollbackOut) ==
    IF tx = "nil" THEN [ret |-> "panic", calls |-> log]
    ELSE IF k > Len(values)
    THEN [ret |-> ErrOf(commitOut),
          calls |-> Append(log, Call("Commit", <<>>, <<>>, commitOut))]
    ELSE batchLoop(tx, fn, values, outs, k + 1,
                   Append(log, Call(fn, <<>>, <<values[k]>>, outs[k])),
                   commitOut, rollbackOut)

batchLoop(tx, fn, values, outs, k, log, commitOut, rollbackOut) ==
    IF tx = "nil" THEN [ret |-> "panic", calls |-> log]
    ELSE IF k > Len(values)
    THEN [ret |-> ErrOf(commitOut),
          calls |-> Append(log, Call("Commit", <<>>, <<>>, commitOut))]
    ELSE LET err == ErrOf(outs[k])
             log2 == Append(log, Call(fn, <<>>, <<values[k]>>, outs[k]))
         IN IF err # "nil"
            THEN [ret |-> err,
                  calls |-> Append(log2, Call("Rollback", <<>>, <<>>, rollbackOut))]
            ELSE batchLoop(tx, fn, values, outs, k + 1, log2, commitOut, rollbackOut)

\* the value of err that Begin returned is overwritten by the loop or dropped
MultiInsert(values, beginOut, outs, commitOut, rollbackOut) ==
    LET b == Begin(beginOut)
    IN batchLoop(b.tx, "Tx.Insert", values, outs, 1,
                 <<Call("Begin", <<>>, <<>>, beginOut)>>, commitOut, rollbackOut)

MultiUpdate(values, beginOut, outs, commitOut, rollbackOut) ==
    LET b == Begin(beginOut)
    IN batchLoop(b.tx, "Tx.Update", values, outs, 1,
                 <<Call("Begin", <<>>, <<>>, beginOut)>>, commitOut, rollbackOut)

MultiSave(values, beginOut, outs, commitOut, rollbackOut) ==
    LET b == Begin(beginOut)
    IN batchLoop(b.tx, "Tx.Save", values, outs, 1,
                 <<Call("Begin", <<>>, <<>>, beginOut)>>, commitOut, rollbackOut)

TxMethods == {"Tx.Insert", "Tx.Update", "Tx.Save"}

\* the transaction collaborator: the records applied without error inside a
\* scope become durable when, and only when, its Commit succeeds
RECURSIVE Applied(_)
Applied(log) ==
    IF Len(log) = 0 THEN <<>>
    ELSE IF log[1].fn \in TxMethods /\ log[1].out = "ok"
         THEN log[1].args \o Applied(Tail(log))
         ELSE Applied(Tail(log))

TxCommitted(log) ==
    IF \E k \in 1 .. Len(log) : log[k].fn = "Commit" /\ log[k].out = "ok"
    THEN Applied(log)
    ELSE <<>>

-----------------------------------------------------------------------------
(* Inputs *)

NoSlice == Slice(TRUE, <<>>)
NoOp == [name |-> "none"]

BadTargets ==
    {[kind |-> "nonptr", isNil |-> FALSE, toSlice |-> FALSE, elemKind |-> "none",
      elemType |-> "none", isPtr |-> FALSE, slice |-> NoSlice],
     [kind |-> "ptr", isNil |-> TRUE, toSlice |-> TRUE, elemKind |-> "struct",
      elemType |-> "T1", isPtr |-> FALSE, slice |-> NoSlice],
     [kind |-> "ptr", isNil |-> FALSE, toSlice |-> FALSE, elemKind |-> "none",
      elemType |-> "none", isPtr |-> FALSE, slice |-> NoSlice],
     [kind |-> "ptr", isNil |-> FALSE, toSlice |-> TRUE, elemKind |-> "int",
      elemType |-> "none", isPtr |-> FALSE, slice |-> NoSlice]}

\* the collections a caller may hold before Select: nil, empty, or one element
SlicesOf(t, isPtr) ==
    {Slice(TRUE, <<>>), Slice(FALSE, <<>>),
     Slice(FALSE, <<Elem(t, isPtr, [j \in 0 .. NumField(t) - 1 |-> 2])>>)}

GoodTargets ==
    {[kind |-> "ptr", isNil |-> FALSE, toSlice |-> TRUE, elemKind |-> "struct",
      elemType |-> tp[1], isPtr |-> tp[2], slice |-> tp[3]] :
        tp \in UNION {{<<t, b, sl>> : sl \in SlicesOf(t, b)} : t \in Types, b \in BOOLEAN}}

Targets == BadTargets \cup GoodTargets

Faults(records) == records \in BadTargets

\* the rows a query for n columns may deliver
RowSeqs(n) == UNION {[1 .. k -> [1 .. n -> Vals]] : k \in 0 .. MaxRows}

\* outcomes of k successive calls of which at most one fails; a call after the
\* failing one is never made
OneFailure(k) ==
    {[i \in 1 .. k |-> "ok"]}
    \cup {[i \in 1 .. k |-> IF i = f THEN e ELSE "ok"] : f \in 1 .. k, e \in Errs}

BatchRecs == RecordsOf("T2")
Batches == UNION {[1 .. n -> {r \in BatchRecs : r.depth = 1}] : n \in 0 .. MaxBatch}

AllOk(outs) == \A k \in 1 .. Len(outs) : outs[k] = "ok"

-----------------------------------------------------------------------------
(* The sequential caller *)

Returned(o, r) ==
    /\ pc' = "returned"
    /\ op' = o
    /\ ret' = r.ret
    /\ calls' = r.calls

CallInsert ==
    /\ pc = "idle"
    /\ \E table \in Tables, record \in Records, out \in Outcomes :
         \E order \in OrdersOf(record) :
            LET r == Insert(cache, table, record, order, out)
            IN /\ Returned([name |-> "Insert", table |-> table, record |-> record,
                            order |-> order], r)
               /\ cache' = r.cache
    /\ UNCHANGED <<dest, committed, concVars>>

CallUpdate ==
    /\ pc = "idle"
    /\ \E table \in Tables, record \in Records, out \in Outcomes,
          where \in WhereTexts, args \in ArgLists :
         \E order \in OrdersOf(record) :
            LET r == Update(cache, table, record, order, where, args, out)
            IN /\ Returned([name |-> "Update", table |-> table, record |-> record,
                            order |-> order, where |-> where, args |-> args], r)
               /\ cache' = r.cache
    /\ UNCHANGED <<dest, committed, concVars>>

CallUpsert ==
    /\ pc = "idle"
    /\ \E table \in Tables, record \in Records, out \in Outcomes :
         \E order \in OrdersOf(record) :
            LET r == Upsert(cache, table, record, order, out)
            IN /\ Returned([name |-> "Upsert", table |-> table, record |-> record,
                            order |-> order], r)
               /\ cache' = r.cache
    /\ UNCHANGED <<dest, committed, concVars>>

CallDelete ==
    /\ pc = "idle"
    /\ \E table \in Tables, where \in WhereTexts, args \in ArgLists, out \in Outcomes :
         LET r == Delete(cache, table, where, args, out)
         IN /\ Returned([name |-> "Delete", table |-> table, where |-> where,
                         args |-> args], r)
            /\ cache' = r.cache
    /\ UNCHANGED <<dest, committed, concVars>>

\* rows: the rows the store holds that match the query
CallSelectOne ==
    /\ pc = "idle"
    /\ \E table \in Tables, record \in RecordsOf("T2"), where \in WhereTexts,
          args \in ArgLists, rows \in RowSeqs(1) :
         LET r == SelectOne(cache, table, record, where, args)
         IN /\ Returned([name |-> "SelectOne", table |-> table, record |-> record,
                         where |-> where, args |-> args, rows |-> rows], r)
            /\ cache' = r.cache
    /\ UNCHANGED <<dest, committed, concVars>>

CallSelect ==
    /\ pc = "idle"
    /\ \E table \in Tables, records \in Targets, where \in WhereTexts, args \in ArgLists,
          qout \in Outcomes, iterOut \in Outcomes :
         \E rows \in IF Faults(records) \/ qout # "ok" THEN {<<>>}
                     ELSE RowSeqs(Len(getFieldInfo(records.elemType).names)) :
           \E scanOuts \in OneFailure(Len(rows)) :
              /\ (Faults(records) \/ qout # "ok" \/ ~AllOk(scanOuts)) => iterOut = "ok"
              /\ LET r == Select(cache, table, records, where, args, qout, rows,
                                 scanOuts, iterOut)
                 IN /\ Returned([name |-> "Select", table |-> table, records |-> records,
                                 where |-> where, args |-> args, rows |-> rows], r)
                    /\ dest' = r.dest
                    /\ cache' = r.cache
    /\ UNCHANGED <<committed, concVars>>

Multi(name, values, beginOut, outs, commitOut, rollbackOut) ==
    CASE name = "MultiInsert" -> MultiInsert(values, beginOut, outs, commitOut, rollbackOut)
      [] name = "MultiUpdate" -> MultiUpdate(values, beginOut, outs, commitOut, rollbackOut)
      [] name = "MultiSave" -> MultiSave(values, beginOut, outs, commitOut, rollbackOut)

CallBatch(name) ==
    /\ pc = "idle"
    /\ \E values \in Batches, beginOut \in Outcomes, commitOut \in Outcomes,
          rollbackOut \in Outcomes :
         \E outs \in OneFailure(Len(values)) :
            /\ beginOut # "ok" => (AllOk(outs) /\ commitOut = "ok")
            /\ AllOk(outs) => rollbackOut = "ok"
            /\ ~AllOk(outs) => commitOut = "ok"
            /\ LET r == Multi(name, values, beginOut, outs, commitOut, rollbackOut)
               IN /\ Returned([name |-> name, values |-> values], r)
                  /\ committed' = TxCommitted(r.calls)
    /\ UNCHANGED <<dest, cache, concVars>>

CallMultiInsert == CallBatch("MultiInsert")
CallMultiUpdate == CallBatch("MultiUpdate")
CallMultiSave == CallBatch("MultiSave")

\* the caller takes the result and is ready for its next call
Resume ==
    /\ pc = "returned"
    /\ pc' = "idle"
    /\ op' = NoOp
    /\ ret' = "none"
    /\ calls' = <<>>
    /\ dest' = NoSlice
    /\ committed' = <<>>
    /\ UNCHANGED <<cache, concVars>>

SeqInit ==
    /\ pc = "idle"
    /\ op = NoOp
    /\ ret = "none"
    /\ calls = <<>>
    /\ dest = NoSlice
    /\ committed = <<>>

-----------------------------------------------------------------------------
(* Concurrent callers of the cached lookup *)

Procs == 1 .. NumProcs
NoCols == <<"none">>

\* typeToFieldInfo.Load(type)
Load(p) ==
    /\ ppc[p] = "idle"
    /\ \E t \in Types :
         /\ ptype' = [ptype EXCEPT ![p] = t]
         /\ pcols' = [pcols EXCEPT ![p] = NoCols]
         /\ IF CacheLoad(cache, t) # None
            THEN /\ pinfo' = [pinfo EXCEPT ![p] = CacheLoad(cache, t)]
                 /\ ppc' = [ppc EXCEPT ![p] = "build"]
            ELSE /\ pinfo' = [pinfo EXCEPT ![p] = None]
                 /\ ppc' = [ppc EXCEPT ![p] = "miss"]
    /\ UNCHANGED <<cache, seqVars>>

\* getFieldInfo(type), then typeToFieldInfo.Store(type, info)
Store(p) ==
    /\ ppc[p] = "miss"
    /\ LET info == getFieldInfo(ptype[p])
       IN /\ cache' = CacheStore(cache, ptype[p], info)
          /\ pinfo' = [pinfo EXCEPT ![p] = info]
    /\ ppc' = [ppc EXCEPT ![p] = "build"]
    /\ UNCHANGED <<ptype, pcols, seqVars>>

\* the statement is built from the names of the *fieldInfo the caller holds
Build(p) ==
    /\ ppc[p] = "build"
    /\ pcols' = [pcols EXCEPT ![p] = pinfo[p].names]
    /\ ppc' = [ppc EXCEPT ![p] = "idle"]
    /\ UNCHANGED <<cache, ptype, pinfo, seqVars>>

ConcInit ==
    /\ ppc = [p \in Procs |-> "idle"]
    /\ ptype = [p \in Procs |-> "T1"]
    /\ pinfo = [p \in Procs |-> None]
    /\ pcols = [p \in Procs |-> NoCols]

-----------------------------------------------------------------------------
(* Specifications *)

Init == SeqInit /\ ConcInit /\ cache = EmptyCache

Next ==
    \/ CallInsert
    \/ CallUpdate
    \/ CallUpsert
    \/ CallDelete
    \/ CallSelect
    \/ CallSelectOne
    \/ CallMultiInsert
    \/ CallMultiUpdate
    \/ CallMultiSave
    \/ Resume

Spec == Init /\ [][Next]_vars

ConcNext == \E p \in Procs : Load(p) \/ Store(p) \/ Build(p)

SpecConc == Init /\ [][ConcNext]_vars

-----------------------------------------------------------------------------
(* Reading a statement back: what the executor is handed, taken apart *)

RECURSIVE CountOf(_, _)
CountOf(text, ch) ==
    IF Len(text) = 0 THEN 0
    ELSE (IF text[1] = ch THEN 1 ELSE 0) + CountOf(Tail(text), ch)

\* the first position >= from that holds ch, or Len(text) + 1
RECURSIVE IndexFrom(_, _, _)
IndexFrom(text, ch, from) ==
    IF from > Len(text) THEN Len(text) + 1
    ELSE IF text[from] = ch THEN from
    ELSE IndexFrom(text, ch, from + 1)

\* the comma-separated items of text; no item in an empty text
RECURSIVE SplitCommas(_)
SplitCommas(text) ==
    IF Len(text) = 0 THEN <<>>
    ELSE LET c == IndexFrom(text, ",", 1)
         IN IF c > Len(text) THEN <<text>>
            ELSE <<SubSeq(text, 1, c - 1)>> \o
                 (IF c = Len(text) THEN <<<<>>>> ELSE SplitCommas(SubSeq(text, c + 1, Len(text))))

\* the column list of an insert or upsert: between the first "(" and the first ")"
ParenColumns(q) ==
    LET a == IndexFrom(q, "(", 1)
        b == IndexFrom(q, ")", 1)
    IN SplitCommas(SubSeq(q, a + 1, b - 1))

\* the column list of a select: from after "select " to the next blank
SelectColumns(q) ==
    LET a == Len(S_select) + 1
        b == IndexFrom(q, " ", a)
    IN SplitCommas(SubSeq(q, a, b - 1))

EndsWith(text, suffix) ==
    /\ Len(suffix) <= Len(text)
    /\ SubSeq(text, Len(text) - Len(suffix) + 1, Len(text)) = suffix

Contains(text, part) ==
    \E i \in 1 .. Len(text) - Len(part) + 1 : SubSeq(text, i, i + Len(part) - 1) = part

\* the columns and values a record stands for, by the state of the cache
ColumnsOf(record, order) ==
    IF record.kind = "map" THEN order ELSE cache[record.type].names
ValueOf(record, order, i) ==
    IF record.kind = "map" THEN record.m[order[i]]
    ELSE record.fields[cache[record.type].indexes[i]]

HasColumns(record) == record.kind \in {"map", "struct"}

BatchNames == {"MultiInsert", "MultiUpdate", "MultiSave"}

FailedAt(k) == calls[k].out # "ok"
SomeFailed == \E k \in 1 .. Len(calls) : FailedAt(k)
FirstFailed == CHOOSE k \in 1 .. Len(calls) : FailedAt(k) /\ \A j \in 1 .. k - 1 : ~FailedAt(j)

-----------------------------------------------------------------------------
(* Claims *)

IsBatch == pc = "returned" /\ op.name \in BatchNames
RecordFailed(k) == calls[k].fn \in TxMethods /\ calls[k].out # "ok"

\* C1: in MultiInsert, MultiUpdate and MultiSave, when a per-record call fails the
\* scope is rolled back right after it, that call's error is what is returned, no
\* later record is applied, Commit is not called and nothing of the batch is
\* committed; a batch commits all of its records or none.
C1_BatchAllOrNothing ==
    IsBatch =>
        /\ \A k \in 1 .. Len(calls) :
              RecordFailed(k) =>
                  /\ Len(calls) = k + 1
                  /\ calls[k + 1].fn = "Rollback"
                  /\ ret = calls[k].out
                  /\ \A j \in 1 .. Len(calls) : calls[j].fn # "Commit"
                  /\ committed = <<>>
        /\ committed \in {<<>>, op.values}

\* the second of three records failed and nothing was committed
C1_Witness ==
    /\ IsBatch
    /\ op.name = "MultiInsert"
    /\ Len(op.values) = 3
    /\ Len(calls) = 4
    /\ RecordFailed(3)
    /\ calls[4].fn = "Rollback"
    /\ committed = <<>>

\* C2: SelectOne against a query that matches zero rows returns ErrNoRows.
C2_SelectOneNotFound ==
    (pc = "returned" /\ op.name = "SelectOne" /\ op.rows = <<>>) => ret = ErrNoRows

\* C3: a failure reported by the collaborator (Begin, Exec, Query, Scan, row
\* iteration, Commit) is what the operation returns, and the failed call is the
\* last one made apart from the Rollback of a batch.
C3_ErrorsPropagate ==
    (pc = "returned" /\ SomeFailed) =>
        /\ ret = calls[FirstFailed].out
        /\ \A j \in FirstFailed + 1 .. Len(calls) : calls[j].fn = "Rollback"

\* C4: an Insert with zero columns faults before a statement reaches the
\* executor, and every Insert that reaches the executor has as many "?" as columns.
C4_NoZeroColumnInsert ==
    (pc = "returned" /\ op.name = "Insert" /\ HasColumns(op.record)) =>
        /\ Len(ColumnsOf(op.record, op.order)) = 0 => (calls = <<>> /\ ret = "panic")
        /\ \A k \in 1 .. Len(calls) :
              CountOf(calls[k].query, "?") = Len(ColumnsOf(op.record, op.order))

\* C5: for a typed record with N mapped columns, Insert hands the executor a
\* statement with exactly the N column names of the cached FieldInfo, exactly N
\* placeholders, and N arguments, argument i being the record's value for column i.
C5_InsertTyped ==
    (pc = "returned" /\ op.name = "Insert" /\ op.record.kind = "struct") =>
        LET fi == cache[op.record.type]
            N == Len(fi.names)
        IN /\ fi # None
           /\ Len(calls) = 1
           /\ calls[1].fn = "Exec"
           /\ ParenColumns(calls[1].query) = fi.names
           /\ CountOf(calls[1].query, "?") = N
           /\ Len(calls[1].args) = N
           /\ \A i \in 1 .. N : calls[1].args[i] = op.record.fields[fi.indexes[i]]

C5_Witness ==
    /\ pc = "returned"
    /\ op.name = "Insert"
    /\ op.record.kind = "struct"
    /\ op.record.type = "T1"
    /\ op.record.fields[0] # op.record.fields[2]
    /\ Len(calls) = 1
    /\ Len(calls[1].args) = 2

\* C6: for a record with N columns, Upsert hands the executor 2N arguments,
\* arguments i and N+i both being the value of column i, and a statement with N
\* placeholders in the VALUES list and N in the on-duplicate-key suffix.
C6_UpsertArgs ==
    (pc = "returned" /\ op.name = "Upsert" /\ HasColumns(op.record)) =>
        LET N == Len(ColumnsOf(op.record, op.order))
            q == calls[1].query
            p1 == IndexFrom(q, ")", 1)
            p2 == IndexFrom(q, ")", p1 + 1)
        IN /\ Len(calls) = 1
           /\ calls[1].fn = "Exec"
           /\ Len(calls[1].args) = 2 * N
           /\ \A i \in 1 .. N :
                 /\ calls[1].args[i] = ValueOf(op.record, op.order, i)
                 /\ calls[1].args[N + i] = ValueOf(op.record, op.order, i)
           /\ p2 <= Len(q)
           /\ CountOf(SubSeq(q, p1, p2), "?") = N
           /\ CountOf(SubSeq(q, p2, Len(q)), "?") = N

C6_Witness ==
    /\ pc = "returned"
    /\ op.name = "Upsert"
    /\ op.record.kind = "map"
    /\ Len(op.order) = 2
    /\ op.record.m[op.order[1]] # op.record.m[op.order[2]]
    /\ Len(calls) = 1
    /\ Len(calls[1].args) = 4

IsSelect == pc = "returned" /\ op.name = "Select"

C8_UpdateArgsAndWhere ==
    (pc = "returned" /\ op.name = "Update" /\ HasColumns(op.record)) =>
        LET N == Len(ColumnsOf(op.record, op.order))
            q == calls[1].query
            a == calls[1].args
        IN /\ Len(calls) = 1
           /\ calls[1].fn = "Exec"
           /\ ret = ErrOf(calls[1].out)
           /\ Len(a) = N + Len(op.args)
           /\ \A i \in 1 .. N : a[i] = ValueOf(op.record, op.order, i)
           /\ \A i \in 1 .. Len(op.args) : a[N + i] = op.args[i]
           /\ Len(op.where) > 0 => EndsWith(q, S_where \o op.where)
           /\ Len(op.where) = 0 => ~Contains(q, S_where)

C8_Witness ==
    /\ pc = "returned"
    /\ op.name = "Update"
    /\ op.record.kind = "struct"
    /\ op.record.type = "T1"
    /\ op.where = <<>>
    /\ Len(op.args) = 2
    /\ Len(calls) = 1
    /\ Len(calls[1].args) = 4
    /\ ret = "nil"

\* C9: under any interleaving of the cached lookups of getFields and Select, an
\* entry of the cache once present is never removed nor changed, a caller that
\* holds a FieldInfo holds the one the cache has for its type, and callers for the
\* same type build their statements from the same column order.
CacheKept == \A t \in Types : cache[t] # None => cache'[t] = cache[t]
SameColumns ==
    /\ \A p \in Procs :
          (pinfo[p] # None /\ cache[ptype[p]] # None) => pinfo[p] = cache[ptype[p]]
    /\ \A p, q \in Procs :
          (ptype[p] = ptype[q] /\ pcols[p] # NoCols /\ pcols[q] # NoCols)
              => pcols[p] = pcols[q]
C10_ScanOrder ==
    (IsSelect /\ ~Faults(op.records)) =>
        LET fi == cache[op.records.elemType]
            cols == SelectColumns(calls[1].query)
        IN /\ calls[1].fn = "Query"
           /\ cols = fi.names
           /\ \A k \in 2 .. Len(calls) :
                 calls[k].fn = "Scan" =>
                     /\ Len(calls[k].args) = Len(cols)
                     /\ \A i \in 1 .. Len(cols) : \E j \in 1 .. Len(fi.names) :
                           fi.names[j] = cols[i] /\ calls[k].args[i] = fi.indexes[j]

C10_Witness ==
    /\ IsSelect
    /\ ~Faults(op.records)
    /\ op.records.elemType = "T1"
    /\ Len(calls) = 3
    /\ calls[3].fn = "Scan"
    /\ calls[3].out = "ok"
    /\ calls[3].args = <<0, 2>>

====
